---- MODULE Spec2Model ----
(***************************************************************************)
(* A model of the fuzzy-engine library: the FuzzyEngine class (variable    *)
(* registry, rule list, configuration, the fuzzify / evaluateRules /       *)
(* aggregate / defuzzify pipeline) together with the operator and          *)
(* defuzzification functions it calls.                                     *)
(*                                                                         *)
(* Numbers are exact rationals <<n, d>> with d > 0 in lowest terms.  All   *)
(* crisp values, ranges and resolutions of the model are small integers,   *)
(* so every quantity the code computes is a rational with a small          *)
(* denominator.                                                            *)
(***************************************************************************)
EXTENDS Integers, Sequences, FiniteSets, TLC

(***************************************************************************)
(* Bounds of the model.                                                    *)
(***************************************************************************)
MaxRules == 2
MaxRes == 2

(***************************************************************************)
(* Rational arithmetic (the JavaScript number type on the model's values). *)
(***************************************************************************)
Abs(n) == IF n < 0 THEN -n ELSE n

RECURSIVE Gcd(_, _)
Gcd(a, b) == IF b = 0 THEN a ELSE Gcd(b, a % b)

\* lowest terms; a function, so that its arguments are evaluated once
NormF[n \in Int, d \in Int] ==
  LET s == IF d < 0 THEN -1 ELSE 1
      g == Gcd(Abs(n), Abs(d))
  IN  <<(s * n) \div g, (s * d) \div g>>

Norm(n, d) == NormF[n, d]

R(n) == <<n, 1>>
Zero == R(0)
One == R(1)
Half == <<1, 2>>

RAdd(p, q) == Norm(p[1] * q[2] + q[1] * p[2], p[2] * q[2])
RSub(p, q) == Norm(p[1] * q[2] - q[1] * p[2], p[2] * q[2])
RMul(p, q) == Norm(p[1] * q[1], p[2] * q[2])
RDiv(p, q) == Norm(p[1] * q[2], p[2] * q[1])
RLt(p, q) == p[1] * q[2] < q[1] * p[2]
RLe(p, q) == p[1] * q[2] <= q[1] * p[2]
RMin(p, q) == IF RLe(p, q) THEN p ELSE q
RMax(p, q) == IF RLe(p, q) THEN q ELSE p
RAbs(p) == <<Abs(p[1]), p[2]>>

RECURSIVE FoldSeq(_, _, _)
\* values.reduce((acc, val) => Op(acc, val), seed)
FoldSeq(Op(_, _), seed, s) ==
  IF s = <<>> THEN seed ELSE FoldSeq(Op, Op(seed, Head(s)), Tail(s))

(***************************************************************************)
(* Membership functions.  A MembershipFunction is a closure; the model     *)
(* keeps what the closure captured and MF(mf, x) applies it.               *)
(***************************************************************************)
\* throw new Error(message): what a constructor that throws gives its caller
Throws(message) == [kind |-> "Error", message |-> message]
IsError(v) == v.kind = "Error"

triangular(a, b, c) ==
  IF a > b \/ b > c THEN Throws("Triangular MF requires a <= b <= c")
  ELSE [kind |-> "triangular", a |-> a, b |-> b, c |-> c]

trapezoidal(a, b, c, d) ==
  IF a > b \/ b > c \/ c > d THEN Throws("Trapezoidal MF requires a <= b <= c <= d")
  ELSE [kind |-> "trapezoidal", a |-> a, b |-> b, c |-> c, d |-> d]

\* the closures of gaussian, bell and piShaped are kept as what they captured;
\* MF does not apply them
gaussian(center, sigma) ==
  IF sigma <= 0 THEN Throws("Gaussian MF requires sigma > 0")
  ELSE [kind |-> "gaussian", center |-> center, sigma |-> sigma]

bell(center, width, slope) ==
  IF width <= 0 THEN Throws("Bell MF requires width > 0")
  ELSE [kind |-> "bell", center |-> center, width |-> width, slope |-> slope]

piShaped(a, b, c, d) == [kind |-> "piShaped", a |-> a, b |-> b, c |-> c, d |-> d]

sShaped(a, b) ==
  IF a >= b THEN Throws("S-shaped MF requires a < b")
  ELSE [kind |-> "sShaped", a |-> a, b |-> b]

zShaped(a, b) ==
  IF a >= b THEN Throws("Z-shaped MF requires a < b")
  ELSE [kind |-> "zShaped", a |-> a, b |-> b]

\* Math.pow(v, 2)
Square(v) == RMul(v, v)
\* a caller-supplied closure () => v
constant(v) == [kind |-> "constant", v |-> v]

\* applyImplication returning the base function of the term
applyImplication_Unclipped(implMethod, mf, strength) == mf

\* applyImplication: the closure captures mf, strength and the branch taken
applyImplication(implMethod, mf, strength) ==
  IF implMethod = "min"
    THEN [kind |-> "clip", mf |-> mf, strength |-> strength]
    ELSE [kind |-> "scale", mf |-> mf, strength |-> strength]

\* aggregateMFs returning the first function whatever the number
aggregateMFs_FirstOnly(aggMethod, mfs) ==
  IF Len(mfs) = 0 THEN constant(Zero) ELSE mfs[1]

\* aggregateMFs taking the maximum under every aggregation method
aggregateMFs_AlwaysMax(aggMethod, mfs) ==
  IF Len(mfs) = 0 THEN constant(Zero)
  ELSE IF Len(mfs) = 1 THEN mfs[1]
  ELSE [kind |-> "aggmax", mfs |-> mfs]

\* aggregateMFs: zero functions give () => 0, one is returned as it is
aggregateMFs(aggMethod, mfs) ==
  IF Len(mfs) = 0 THEN constant(Zero)
  ELSE IF Len(mfs) = 1 THEN mfs[1]
  ELSE IF aggMethod = "max" THEN [kind |-> "aggmax", mfs |-> mfs]
  ELSE [kind |-> "aggsum", mfs |-> mfs]

\* (x) => mf(x) >= alpha ? 1 : 0, and with > for the strong cut
alphaCut(mf, alpha) == [kind |-> "alphaCut", mf |-> mf, alpha |-> alpha]
strongAlphaCut(mf, alpha) == [kind |-> "strongAlphaCut", mf |-> mf, alpha |-> alpha]
support(mf) == alphaCut(mf, Zero)
core(mf) == alphaCut(mf, One)

RECURSIVE MF(_, _)
MF(mf, x) ==
  CASE mf.kind = "triangular" ->
         IF RLe(x, R(mf.a)) \/ RLe(R(mf.c), x) THEN Zero
         ELSE IF x = R(mf.b) THEN One
         ELSE IF RLt(x, R(mf.b))
           THEN RDiv(RSub(x, R(mf.a)), R(mf.b - mf.a))
           ELSE RDiv(RSub(R(mf.c), x), R(mf.c - mf.b))
    [] mf.kind = "trapezoidal" ->
         IF RLe(x, R(mf.a)) \/ RLe(R(mf.d), x) THEN Zero
         ELSE IF RLe(R(mf.b), x) /\ RLe(x, R(mf.c)) THEN One
         ELSE IF RLt(x, R(mf.b))
           THEN RDiv(RSub(x, R(mf.a)), R(mf.b - mf.a))
           ELSE RDiv(RSub(R(mf.d), x), R(mf.d - mf.c))
    [] mf.kind = "sShaped" ->
         IF RLe(x, R(mf.a)) THEN Zero
         ELSE IF RLe(R(mf.b), x) THEN One
         ELSE IF RLe(x, RDiv(R(mf.a + mf.b), R(2)))
           THEN RMul(R(2), Square(RDiv(RSub(x, R(mf.a)), R(mf.b - mf.a))))
           ELSE RSub(One, RMul(R(2), Square(RDiv(RSub(x, R(mf.b)), R(mf.b - mf.a)))))
    [] mf.kind = "zShaped" ->
         IF RLe(x, R(mf.a)) THEN One
         ELSE IF RLe(R(mf.b), x) THEN Zero
         ELSE IF RLe(x, RDiv(R(mf.a + mf.b), R(2)))
           THEN RSub(One, RMul(R(2), Square(RDiv(RSub(x, R(mf.a)), R(mf.b - mf.a)))))
           ELSE RMul(R(2), Square(RDiv(RSub(x, R(mf.b)), R(mf.b - mf.a))))
    [] mf.kind = "constant" -> mf.v
    [] mf.kind = "alphaCut" ->
         IF RLe(mf.alpha, MF(mf.mf, x)) THEN One ELSE Zero
    [] mf.kind = "strongAlphaCut" ->
         IF RLt(mf.alpha, MF(mf.mf, x)) THEN One ELSE Zero
    [] mf.kind = "clip" -> RMin(MF(mf.mf, x), mf.strength)
    [] mf.kind = "scale" -> RMul(MF(mf.mf, x), mf.strength)
    [] mf.kind = "aggmax" ->
         LET vals == [i \in 1..Len(mf.mfs) |-> MF(mf.mfs[i], x)]
         IN  FoldSeq(RMax, Head(vals), Tail(vals))
    [] mf.kind = "aggsum" ->
         LET vals == [i \in 1..Len(mf.mfs) |-> MF(mf.mfs[i], x)]
         IN  RMin(One, FoldSeq(RAdd, Zero, vals))

(***************************************************************************)
(* T-norms and S-norms over a non-empty sequence of degrees.               *)
(***************************************************************************)
tNormMin(values) == FoldSeq(RMin, Head(values), Tail(values))
tNormProduct(values) == FoldSeq(RMul, One, values)
sNormMax(values) == FoldSeq(RMax, Head(values), Tail(values))
ProbSum(acc, val) == RSub(RAdd(acc, val), RMul(acc, val))
sNormSum(values) == FoldSeq(ProbSum, Zero, values)

\* getAndOperator with the product as the default
getAndOperator_ProductByDefault(method) ==
  CASE method = "min" -> "tNormMin"
    [] method = "product" -> "tNormProduct"
    [] OTHER -> "tNormProduct"

\* the operator factories return a function; the model returns its name
getAndOperator(method) ==
  CASE method = "min" -> "tNormMin"
    [] method = "product" -> "tNormProduct"
    [] OTHER -> "tNormMin"

getOrOperator(method) ==
  CASE method = "max" -> "sNormMax"
    [] method = "sum" -> "sNormSum"
    [] method = "probor" -> "sNormSum"
    [] OTHER -> "sNormMax"

\* Math.min() and Math.max() of no arguments
Infinity == <<1, 0>>
NegInfinity == <<-1, 0>>

Sum(values) == FoldSeq(RAdd, Zero, values)
tNormLukasiewicz(values) == RMax(Zero, RSub(Sum(values), R(Len(values) - 1)))
sNormLukasiewicz(values) == RMin(One, Sum(values))
sNormProbor(values) == sNormSum(values)

tNormDrastic(values) ==
  LET hasOne == \E i \in 1..Len(values) : values[i] = One
  IN  IF Len(values) = 1 THEN values[1]
      ELSE IF ~hasOne THEN Zero
      ELSE FoldSeq(RMin, Infinity, SelectSeq(values, LAMBDA v : v # One))

sNormDrastic(values) ==
  LET hasZero == \E i \in 1..Len(values) : values[i] = Zero
  IN  IF Len(values) = 1 THEN values[1]
      ELSE IF ~hasZero THEN One
      ELSE FoldSeq(RMax, NegInfinity, SelectSeq(values, LAMBDA v : v # Zero))

Apply(op, values) ==
  CASE op = "tNormMin" -> tNormMin(values)
    [] op = "tNormProduct" -> tNormProduct(values)
    [] op = "sNormMax" -> sNormMax(values)
    [] op = "sNormSum" -> sNormSum(values)
    [] op = "tNormLukasiewicz" -> tNormLukasiewicz(values)
    [] op = "tNormDrastic" -> tNormDrastic(values)
    [] op = "sNormProbor" -> sNormProbor(values)
    [] op = "sNormLukasiewicz" -> sNormLukasiewicz(values)
    [] op = "sNormDrastic" -> sNormDrastic(values)


(***************************************************************************)
(* Defuzzification.  Each method is a sampling loop                        *)
(*   for (let x = min; x <= max; x += step) { ... }                        *)
(* A call is modelled by its frame c: the arguments, the loop variable x,  *)
(* the local accumulators acc, the loop it is in (bisector has two) and,   *)
(* once it has returned, the value.  Body is one iteration, Exit is the    *)
(* code after a loop whose condition is false.                             *)
(***************************************************************************)
getDefuzzifier(method) ==
  CASE method = "centroid" -> "centroid"
    [] method = "bisector" -> "bisector"
    [] method = "mom" -> "meanOfMaximum"
    [] method = "som" -> "smallestOfMaximum"
    [] method = "lom" -> "largestOfMaximum"
    [] OTHER -> "centroid"

\* Math.abs(mu - maxMembership) < 1e-10.  A rational of the model has a
\* denominator below 2^31, so a non-zero one is above 4e-10.
WithinTolerance(mu, maxMembership) == RAbs(RSub(mu, maxMembership)) = Zero

Midpoint(min, max) == RDiv(RAdd(min, max), R(2))

\* a centroid whose loop starts one step after min
Enter_CentroidSkipsMin(fn, mf, min, max, res) ==
  [fn |-> fn, mf |-> mf, min |-> min, max |-> max,
   step |-> RDiv(RSub(max, min), R(res)),
   loop |-> 1,
   x |-> CASE fn = "largestOfMaximum" -> max
           [] fn = "centroid" -> RAdd(min, RDiv(RSub(max, min), R(res)))
           [] OTHER -> min,
   acc |-> CASE fn = "centroid" -> [sumWeighted |-> Zero, sumMembership |-> Zero]
             [] fn = "bisector" -> [totalArea |-> Zero]
             [] fn = "meanOfMaximum" -> [maxMembership |-> Zero, maxPoints |-> <<>>]
             [] fn = "smallestOfMaximum" -> [maxMembership |-> Zero, smallestMax |-> min]
             [] fn = "largestOfMaximum" -> [maxMembership |-> Zero, largestMax |-> max],
   returned |-> FALSE, value |-> Zero]

Enter(fn, mf, min, max, res) ==
  [fn |-> fn, mf |-> mf, min |-> min, max |-> max,
   step |-> RDiv(RSub(max, min), R(res)),
   loop |-> 1,
   x |-> IF fn = "largestOfMaximum" THEN max ELSE min,
   acc |-> CASE fn = "centroid" -> [sumWeighted |-> Zero, sumMembership |-> Zero]
             [] fn = "bisector" -> [totalArea |-> Zero]
             [] fn = "meanOfMaximum" -> [maxMembership |-> Zero, maxPoints |-> <<>>]
             [] fn = "smallestOfMaximum" -> [maxMembership |-> Zero, smallestMax |-> min]
             [] fn = "largestOfMaximum" -> [maxMembership |-> Zero, largestMax |-> max],
   returned |-> FALSE, value |-> Zero]

LoopCond(c) ==
  IF c.fn = "largestOfMaximum" THEN RLe(c.min, c.x) ELSE RLe(c.x, c.max)

Return(c, v) == [c EXCEPT !.returned = TRUE, !.value = v]

Body(c) ==
  LET mu == MF(c.mf, c.x)
      next == RAdd(c.x, c.step)
      a == c.acc
  IN  CASE c.fn = "centroid" ->
             [c EXCEPT !.acc = [sumWeighted |-> RAdd(a.sumWeighted, RMul(c.x, mu)),
                                sumMembership |-> RAdd(a.sumMembership, mu)],
                       !.x = next]
        [] c.fn = "bisector" /\ c.loop = 1 ->
             [c EXCEPT !.acc = [totalArea |-> RAdd(a.totalArea, RMul(mu, c.step))],
                       !.x = next]
        [] c.fn = "bisector" /\ c.loop = 2 ->
             LET area == RAdd(a.accumulatedArea, RMul(mu, c.step))
                 c2 == [c EXCEPT !.acc.accumulatedArea = area]
             IN  IF RLe(a.halfArea, area) THEN Return(c2, c.x)
                 ELSE [c2 EXCEPT !.x = next]
        [] c.fn = "meanOfMaximum" ->
             IF RLt(a.maxMembership, mu)
               THEN [c EXCEPT !.acc = [maxMembership |-> mu, maxPoints |-> <<c.x>>],
                              !.x = next]
             ELSE IF WithinTolerance(mu, a.maxMembership)
               THEN [c EXCEPT !.acc.maxPoints = Append(a.maxPoints, c.x), !.x = next]
             ELSE [c EXCEPT !.x = next]
        [] c.fn = "smallestOfMaximum" ->
             IF RLt(a.maxMembership, mu)
               THEN [c EXCEPT !.acc = [maxMembership |-> mu, smallestMax |-> c.x],
                              !.x = next]
               ELSE [c EXCEPT !.x = next]
        [] c.fn = "largestOfMaximum" ->
             IF RLt(a.maxMembership, mu)
               THEN [c EXCEPT !.acc = [maxMembership |-> mu, largestMax |-> c.x],
                              !.x = RSub(c.x, c.step)]
               ELSE [c EXCEPT !.x = RSub(c.x, c.step)]

Exit(c) ==
  LET a == c.acc
  IN  CASE c.fn = "centroid" ->
             IF a.sumMembership = Zero THEN Return(c, Midpoint(c.min, c.max))
             ELSE Return(c, RDiv(a.sumWeighted, a.sumMembership))
        [] c.fn = "bisector" /\ c.loop = 1 ->
             IF a.totalArea = Zero THEN Return(c, Midpoint(c.min, c.max))
             ELSE [c EXCEPT !.loop = 2, !.x = c.min,
                            !.acc = [totalArea |-> a.totalArea,
                                     accumulatedArea |-> Zero,
                                     halfArea |-> RDiv(a.totalArea, R(2))]]
        [] c.fn = "bisector" /\ c.loop = 2 -> Return(c, c.max)
        [] c.fn = "meanOfMaximum" ->
             IF Len(a.maxPoints) = 0 THEN Return(c, Midpoint(c.min, c.max))
             ELSE Return(c, RDiv(FoldSeq(RAdd, Zero, a.maxPoints), R(Len(a.maxPoints))))
        [] c.fn = "smallestOfMaximum" -> Return(c, a.smallestMax)
        [] c.fn = "largestOfMaximum" -> Return(c, a.largestMax)

\* one step of a call that has not returned
Step(c) == IF LoopCond(c) THEN Body(c) ELSE Exit(c)

\* the value a call returns, for calls whose loops end (step /= 0)
RECURSIVE Run(_)
Run(c) == IF c.returned THEN c.value ELSE Run(Step(c))

defuzzify(mf, method, min, max, res) ==
  Run(Enter(getDefuzzifier(method), mf, min, max, res))


(***************************************************************************)
(* The engine's private functions, as functions of the registry           *)
(* (reg: name -> Variable, the Map of the class), the rule list and the   *)
(* configuration they read.                                                *)
(*   Variable : [name, sets, range, isOutput]     sets: term -> MF         *)
(*   FuzzyRule: [if, then, hasWeight, weight]                              *)
(*     if  : sequence of [var, isArray, terms]  (Object.entries(rule.if);  *)
(*           a bare string term is isArray = FALSE with terms = <<term>>)  *)
(*     then: sequence of [var, term]            (Object.entries(rule.then))*)
(*   inputs   : sequence of [name, value]       (Object.entries(inputs))   *)
(***************************************************************************)
Has(reg, name) == name \in DOMAIN reg
HasTerm(variable, term) == term \in DOMAIN variable.sets

\* Map.set
MapSet(reg, name, v) ==
  [n \in (DOMAIN reg) \cup {name} |-> IF n = name THEN v ELSE reg[n]]

testPoints == <<-1000, -100, -10, 0, 10, 100, 1000>>
Threshold == <<1, 100>>
DefaultMin == 0
DefaultMax == 100

SetMin(S) == CHOOSE m \in S : \A o \in S : m <= o
SetMax(S) == CHOOSE m \in S : \A o \in S : o <= m

\* inferRange seeded with the default window only when no point is hit
inferRange_HitsOnly(sets) ==
  LET hit == {testPoints[i] : i \in
                {j \in 1..Len(testPoints) :
                   \E term \in DOMAIN sets :
                      RLt(Threshold, MF(sets[term], R(testPoints[j])))}}
  IN  IF hit = {} THEN <<DefaultMin, DefaultMax>>
      ELSE <<SetMin(hit), SetMax(hit)>>

inferRange(sets) ==
  LET hit == {testPoints[i] : i \in
                {j \in 1..Len(testPoints) :
                   \E term \in DOMAIN sets :
                      RLt(Threshold, MF(sets[term], R(testPoints[j])))}}
  IN  <<SetMin(hit \cup {DefaultMin}), SetMax(hit \cup {DefaultMax})>>

\* range || this.inferRange(sets): an absent range is the empty tuple
RangeOrInferred(sets, range) == IF range = <<>> THEN inferRange(sets) ELSE range

RECURSIVE FirstError(_, _)
\* the first clause check of a loop that throws, "none" when none does
FirstError(Check(_), s) ==
  IF s = <<>> THEN "none"
  ELSE IF Check(Head(s)) # "none" THEN Check(Head(s))
  ELSE FirstError(Check, Tail(s))

\* validateRule without the term check of the antecedent loop
validateRule_NoAntecedentTerms(reg, rule) ==
  LET CheckIf(clause) ==
        IF ~Has(reg, clause.var) THEN "UnknownVariable" ELSE "none"
      CheckThen(entry) ==
        IF ~Has(reg, entry.var) THEN "UnknownVariable"
        ELSE IF ~reg[entry.var].isOutput THEN "NotAnOutput"
        ELSE IF ~HasTerm(reg[entry.var], entry.term) THEN "UnknownTerm"
        ELSE "none"
      a == FirstError(CheckIf, rule.if)
  IN  IF a # "none" THEN a ELSE FirstError(CheckThen, rule.then)

\* validateRule without the isOutput check of the consequent loop
validateRule_NoOutputCheck(reg, rule) ==
  LET CheckIf(clause) ==
        IF ~Has(reg, clause.var) THEN "UnknownVariable"
        ELSE IF \E i \in 1..Len(clause.terms) :
                   ~HasTerm(reg[clause.var], clause.terms[i])
          THEN "UnknownTerm"
          ELSE "none"
      CheckThen(entry) ==
        IF ~Has(reg, entry.var) THEN "UnknownVariable"
        ELSE IF ~HasTerm(reg[entry.var], entry.term) THEN "UnknownTerm"
        ELSE "none"
      a == FirstError(CheckIf, rule.if)
  IN  IF a # "none" THEN a ELSE FirstError(CheckThen, rule.then)

\* the kind of Error validateRule throws for a rule, "none" when it returns
validateRule(reg, rule) ==
  LET CheckIf(clause) ==
        IF ~Has(reg, clause.var) THEN "UnknownVariable"
        ELSE IF \E i \in 1..Len(clause.terms) :
                   ~HasTerm(reg[clause.var], clause.terms[i])
          THEN "UnknownTerm"
          ELSE "none"
      CheckThen(entry) ==
        IF ~Has(reg, entry.var) THEN "UnknownVariable"
        ELSE IF ~reg[entry.var].isOutput THEN "NotAnOutput"
        ELSE IF ~HasTerm(reg[entry.var], entry.term) THEN "UnknownTerm"
        ELSE "none"
      a == FirstError(CheckIf, rule.if)
  IN  IF a # "none" THEN a ELSE FirstError(CheckThen, rule.then)

RECURSIVE fuzzify_IncludesOutputs(_, _)
\* fuzzify without the isOutput test
fuzzify_IncludesOutputs(reg, inputs) ==
  IF inputs = <<>> THEN <<>>
  ELSE LET e == Head(inputs)
       IN  IF ~Has(reg, e.name)
             THEN fuzzify_IncludesOutputs(reg, Tail(inputs))
             ELSE <<[variable |-> e.name, value |-> e.value,
                     memberships |->
                       [term \in DOMAIN reg[e.name].sets |->
                          MF(reg[e.name].sets[term], e.value)]]>>
                  \o fuzzify_IncludesOutputs(reg, Tail(inputs))

RECURSIVE fuzzify(_, _)
fuzzify(reg, inputs) ==
  IF inputs = <<>> THEN <<>>
  ELSE LET e == Head(inputs)
       IN  IF ~Has(reg, e.name) \/ reg[e.name].isOutput
             THEN fuzzify(reg, Tail(inputs))
             ELSE <<[variable |-> e.name, value |-> e.value,
                     memberships |->
                       [term \in DOMAIN reg[e.name].sets |->
                          MF(reg[e.name].sets[term], e.value)]]>>
                  \o fuzzify(reg, Tail(inputs))

\* the lookup evaluateRules builds: a later record of a name overwrites
Fuzzified(fuzzification) ==
  [n \in {fuzzification[i].variable : i \in 1..Len(fuzzification)} |->
     LET last == SetMax({i \in 1..Len(fuzzification) : fuzzification[i].variable = n})
     IN  fuzzification[last].memberships]

RECURSIVE AntecedentStrengths_ZeroWhenAbsent(_, _, _)
\* antecedentStrengths with a clause of an absent variable counted as 0
AntecedentStrengths_ZeroWhenAbsent(fuzzified, orOp, clauses) ==
  IF clauses = <<>> THEN <<>>
  ELSE LET cl == Head(clauses)
           rest == AntecedentStrengths_ZeroWhenAbsent(fuzzified, orOp, Tail(clauses))
       IN  IF cl.var \notin DOMAIN fuzzified THEN <<Zero>> \o rest
           ELSE LET varMemberships == fuzzified[cl.var]
                    termStrengths ==
                      [i \in 1..Len(cl.terms) |->
                         IF cl.terms[i] \in DOMAIN varMemberships
                           THEN varMemberships[cl.terms[i]] ELSE Zero]
                IN  <<IF Len(termStrengths) > 1
                        THEN Apply(orOp, termStrengths)
                        ELSE termStrengths[1]>> \o rest

RECURSIVE AntecedentStrengths(_, _, _)
AntecedentStrengths(fuzzified, orOp, clauses) ==
  IF clauses = <<>> THEN <<>>
  ELSE LET cl == Head(clauses)
           rest == AntecedentStrengths(fuzzified, orOp, Tail(clauses))
       IN  IF cl.var \notin DOMAIN fuzzified THEN rest
           ELSE LET varMemberships == fuzzified[cl.var]
                    termStrengths ==
                      [i \in 1..Len(cl.terms) |->
                         IF cl.terms[i] \in DOMAIN varMemberships
                           THEN varMemberships[cl.terms[i]] ELSE Zero]
                IN  <<IF Len(termStrengths) > 1
                        THEN Apply(orOp, termStrengths)
                        ELSE termStrengths[1]>> \o rest

\* firingStrength without the multiplication by rule.weight
FiringStrength_IgnoresWeight(fuzzified, andOp, orOp, rule) ==
  LET antecedentStrengths == AntecedentStrengths(fuzzified, orOp, rule.if)
  IN  IF Len(antecedentStrengths) > 0
        THEN Apply(andOp, antecedentStrengths) ELSE Zero

FiringStrength(fuzzified, andOp, orOp, rule) ==
  LET antecedentStrengths == AntecedentStrengths(fuzzified, orOp, rule.if)
      firingStrength == IF Len(antecedentStrengths) > 0
                          THEN Apply(andOp, antecedentStrengths) ELSE Zero
  IN  IF rule.hasWeight THEN RMul(firingStrength, rule.weight) ELSE firingStrength

evaluateRules(rs, andM, orM, fuzzification) ==
  LET andOp == getAndOperator(andM)
      orOp == getOrOperator(orM)
      fuzzified == Fuzzified(fuzzification)
  IN  [i \in 1..Len(rs) |->
         LET firingStrength == FiringStrength(fuzzified, andOp, orOp, rs[i])
         IN  [rule |-> rs[i],
              firingStrength |-> firingStrength,
              outputContributions |->
                [j \in 1..Len(rs[i].then) |->
                   [outputVar |-> rs[i].then[j].var,
                    term |-> rs[i].then[j].term,
                    strength |-> firingStrength]]]]

RECURSIVE Flatten(_)
Flatten(ss) == IF ss = <<>> THEN <<>> ELSE Head(ss) \o Flatten(Tail(ss))

RECURSIVE KeysInOrder(_, _)
\* the keys of a Record in insertion order
KeysInOrder(contribs, seen) ==
  IF contribs = <<>> THEN <<>>
  ELSE IF Head(contribs).outputVar \in seen THEN KeysInOrder(Tail(contribs), seen)
  ELSE <<Head(contribs).outputVar>>
       \o KeysInOrder(Tail(contribs), seen \cup {Head(contribs).outputVar})

\* an aggregate that makes the entry of an output only when it pushes a
\* contribution to it
aggregate_EntryOnPush(reg, implM, aggM, ruleEvaluations) ==
  LET contribs == Flatten([i \in 1..Len(ruleEvaluations) |->
                             ruleEvaluations[i].outputContributions])
      Pushed(k) ==
        SelectSeq(contribs,
                  LAMBDA q : /\ q.outputVar = k
                             /\ Has(reg, k)
                             /\ HasTerm(reg[k], q.term))
      keys == SelectSeq(KeysInOrder(contribs, {}), LAMBDA k : Pushed(k) # <<>>)
      Implied(k) ==
        [i \in 1..Len(Pushed(k)) |->
           applyImplication(implM, reg[k].sets[Pushed(k)[i].term], Pushed(k)[i].strength)]
  IN  [keys |-> keys,
       mf |-> [k \in {keys[i] : i \in 1..Len(keys)} |-> aggregateMFs(aggM, Implied(k))]]

\* aggregate: [keys: the output names in insertion order, mf: name -> MF]
aggregate(reg, implM, aggM, ruleEvaluations) ==
  LET contribs == Flatten([i \in 1..Len(ruleEvaluations) |->
                             ruleEvaluations[i].outputContributions])
      keys == KeysInOrder(contribs, {})
      Pushed(k) ==
        SelectSeq(contribs,
                  LAMBDA q : /\ q.outputVar = k
                             /\ Has(reg, k)
                             /\ HasTerm(reg[k], q.term))
      Implied(k) ==
        [i \in 1..Len(Pushed(k)) |->
           applyImplication(implM, reg[k].sets[Pushed(k)[i].term], Pushed(k)[i].strength)]
  IN  [keys |-> keys,
       mf |-> [k \in {keys[i] : i \in 1..Len(keys)} |-> aggregateMFs(aggM, Implied(k))]]


(***************************************************************************)
(* State of a FuzzyEngine and of the call in progress.                     *)
(***************************************************************************)
VARIABLES
  variables,              \* Map<string, Variable>
  rules,                  \* FuzzyRule[]
  defuzzificationMethod, andMethod, orMethod,
  implicationMethod, aggregationMethod, resolution,
  pc,                     \* "idle", or "defuzzify" inside defuzzifyOutputs
  locals,                 \* the locals of the evaluateVerbose call in progress
  outcome,                \* the last completed call: its name, the error thrown
                          \* ("none" when it returned), and the rule of an
                          \* addRule or the inputs of an evaluation
  result                  \* what the last evaluate / evaluateVerbose returned

config == <<defuzzificationMethod, andMethod, orMethod,
            implicationMethod, aggregationMethod, resolution>>
engine == <<variables, rules, config>>
vars == <<variables, rules, config, pc, locals, outcome, result>>

NoLocals == <<>>
NoResult == <<>>
Done(op, err, args) == [op |-> op, err |-> err, args |-> args]

(***************************************************************************)
(* The values the operations are called with.                              *)
(***************************************************************************)
LoMF == triangular(-2, 0, 2)
HiMF == triangular(0, 2, 4)
BothTerms == [term \in {"lo", "hi"} |-> IF term = "lo" THEN LoMF ELSE HiMF]
OnlyLo == [term \in {"lo"} |-> LoMF]

Clause(v, term) == [var |-> v, isArray |-> FALSE, terms |-> <<term>>]
ClauseList(v, terms) == [var |-> v, isArray |-> TRUE, terms |-> terms]
Then(v, term) == [var |-> v, term |-> term]
Rule(if, then) == [if |-> if, then |-> then, hasWeight |-> FALSE, weight |-> One]
Weighted(if, then, w) == [if |-> if, then |-> then, hasWeight |-> TRUE, weight |-> w]

Methods == [defuzzification |-> {"centroid", "bisector", "mom", "som", "lom"},
            and |-> {"min", "product"},
            or |-> {"max", "sum"},
            implication |-> {"min", "product"},
            aggregation |-> {"max", "sum"}]

(***************************************************************************)
(* Registration.                                                           *)
(***************************************************************************)
\* a registration that keeps the variable a name already has
Register_FirstWins(op, name, sets, range, isOutput) ==
  /\ pc = "idle"
  /\ variables' = IF Has(variables, name) THEN variables
                  ELSE MapSet(variables, name,
                              [name |-> name, sets |-> sets,
                               range |-> RangeOrInferred(sets, range),
                               isOutput |-> isOutput])
  /\ outcome' = Done(op, "none", <<>>)
  /\ result' = NoResult
  /\ UNCHANGED <<rules, config, pc, locals>>

Register(op, name, sets, range, isOutput) ==
  /\ pc = "idle"
  /\ outcome' = Done(op, "none", <<>>)
  /\ result' = NoResult
  /\ variables' = MapSet(variables, name,
                         [name |-> name, sets |-> sets,
                          range |-> RangeOrInferred(sets, range),
                          isOutput |-> isOutput])
  /\ UNCHANGED <<rules, config, pc, locals>>

AddVariable(name, sets, range) == Register("addVariable", name, sets, range, FALSE)

AddOutput(name, sets, range) == Register("addOutput", name, sets, range, TRUE)

\* the rules of rs that addRule pushes before one of them throws
RECURSIVE ValidPrefix(_, _)
ValidPrefix(vs, rs) ==
  IF rs = <<>> \/ validateRule(vs, Head(rs)) # "none" THEN <<>>
  ELSE <<Head(rs)>> \o ValidPrefix(vs, Tail(rs))

AddRulesError(vs, rs) ==
  IF Len(ValidPrefix(vs, rs)) = Len(rs) THEN "none"
  ELSE validateRule(vs, rs[Len(ValidPrefix(vs, rs)) + 1])

\* getRules returns a copy of the rule list
getRules == rules

RECURSIVE Values(_)
\* Array.from(map.values()); the order of the Map's entries is not modelled,
\* the entries are listed in a fixed order
Values(reg) ==
  IF DOMAIN reg = {} THEN <<>>
  ELSE LET k == CHOOSE k \in DOMAIN reg : TRUE
       IN  <<reg[k]>> \o Values([n \in DOMAIN reg \ {k} |-> reg[n]])

\* terms is Object.keys(v.sets), kept as the set of keys
getVariables ==
  LET vs == Values(variables)
  IN  [i \in 1..Len(vs) |->
         [name |-> vs[i].name, terms |-> DOMAIN vs[i].sets,
          isOutput |-> vs[i].isOutput, range |-> vs[i].range]]

AddRule(rule) ==
  /\ pc = "idle"
  /\ LET err == validateRule(variables, rule)
     IN  /\ err = "none" => Len(rules) < MaxRules
         /\ rules' = IF err = "none" THEN Append(rules, rule) ELSE rules
         /\ outcome' = Done("addRule", err, rule)
  /\ result' = NoResult
  /\ UNCHANGED <<variables, config, pc, locals>>

AddRules(rs) ==
  /\ pc = "idle"
  /\ Len(rules) + Len(ValidPrefix(variables, rs)) <= MaxRules
  /\ rules' = rules \o ValidPrefix(variables, rs)
  /\ outcome' = Done("addRules", AddRulesError(variables, rs), <<>>)
  /\ result' = NoResult
  /\ UNCHANGED <<variables, config, pc, locals>>

\* a clearRules that also empties the registry
ClearRules_DropsVariables ==
  /\ pc = "idle"
  /\ rules' = <<>>
  /\ variables' = [n \in {} |-> Zero]
  /\ outcome' = Done("clearRules", "none", <<>>)
  /\ result' = NoResult
  /\ UNCHANGED <<config, pc, locals>>

ClearRules ==
  /\ pc = "idle"
  /\ rules' = <<>>
  /\ outcome' = Done("clearRules", "none", <<>>)
  /\ result' = NoResult
  /\ UNCHANGED <<variables, config, pc, locals>>

(***************************************************************************)
(* Configuration setters.                                                  *)
(***************************************************************************)
SetDefuzzificationMethod(method) ==
  /\ pc = "idle"
  /\ defuzzificationMethod' = method
  /\ outcome' = Done("setDefuzzificationMethod", "none", <<>>)
  /\ result' = NoResult
  /\ UNCHANGED <<variables, rules, andMethod, orMethod, implicationMethod,
                 aggregationMethod, resolution, pc, locals>>

SetAndMethod(method) ==
  /\ pc = "idle"
  /\ andMethod' = method
  /\ outcome' = Done("setAndMethod", "none", <<>>)
  /\ result' = NoResult
  /\ UNCHANGED <<variables, rules, defuzzificationMethod, orMethod,
                 implicationMethod, aggregationMethod, resolution, pc, locals>>

SetOrMethod(method) ==
  /\ pc = "idle"
  /\ orMethod' = method
  /\ outcome' = Done("setOrMethod", "none", <<>>)
  /\ result' = NoResult
  /\ UNCHANGED <<variables, rules, defuzzificationMethod, andMethod,
                 implicationMethod, aggregationMethod, resolution, pc, locals>>

SetImplicationMethod(method) ==
  /\ pc = "idle"
  /\ implicationMethod' = method
  /\ outcome' = Done("setImplicationMethod", "none", <<>>)
  /\ result' = NoResult
  /\ UNCHANGED <<variables, rules, defuzzificationMethod, andMethod, orMethod,
                 aggregationMethod, resolution, pc, locals>>

SetAggregationMethod(method) ==
  /\ pc = "idle"
  /\ aggregationMethod' = method
  /\ outcome' = Done("setAggregationMethod", "none", <<>>)
  /\ result' = NoResult
  /\ UNCHANGED <<variables, rules, defuzzificationMethod, andMethod, orMethod,
                 implicationMethod, resolution, pc, locals>>

SetResolution(res) ==
  /\ pc = "idle"
  /\ resolution' = res
  /\ outcome' = Done("setResolution", "none", <<>>)
  /\ result' = NoResult
  /\ UNCHANGED <<variables, rules, defuzzificationMethod, andMethod, orMethod,
                 implicationMethod, aggregationMethod, pc, locals>>


(***************************************************************************)
(* evaluate / evaluateVerbose.  Fuzzification, rule evaluation and         *)
(* aggregation build closures and records and always return;               *)
(* defuzzifyOutputs then runs one defuzzifier call per aggregated output,  *)
(* followed here step by step.                                             *)
(***************************************************************************)
EmptyRecord == [n \in {} |-> Zero]

OptionsMin(name) == R(variables[name].range[1])
\* options.max one above the registered range
OptionsMax_AboveRange(name) == R(variables[name].range[2] + 1)

OptionsMax(name) == R(variables[name].range[2])

Call(name, mf) ==
  Enter(getDefuzzifier(defuzzificationMethod), mf,
        OptionsMin(name), OptionsMax(name), resolution)

\* evaluate returns result.outputs, evaluateVerbose the whole record
Returned(op, outputs, fuzzification, ruleEvaluations, aggregatedOutputs) ==
  IF op = "evaluate" THEN [outputs |-> outputs]
  ELSE [outputs |-> outputs, fuzzification |-> fuzzification,
        ruleEvaluations |-> ruleEvaluations,
        aggregatedOutputs |-> aggregatedOutputs]

Begin(op, inputs) ==
  /\ pc = "idle"
  /\ LET fuzzification == fuzzify(variables, inputs)
         ruleEvaluations == evaluateRules(rules, andMethod, orMethod, fuzzification)
         agg == aggregate(variables, implicationMethod, aggregationMethod, ruleEvaluations)
         pending == SelectSeq(agg.keys, LAMBDA k : Has(variables, k))
     IN  IF pending = <<>>
           THEN /\ pc' = "idle"
                /\ locals' = NoLocals
                /\ outcome' = Done(op, "none", inputs)
                /\ result' = Returned(op, EmptyRecord, fuzzification,
                                      ruleEvaluations, agg.mf)
           ELSE /\ pc' = "defuzzify"
                /\ locals' = [op |-> op, inputs |-> inputs,
                              fuzzification |-> fuzzification,
                              ruleEvaluations |-> ruleEvaluations,
                              aggregatedOutputs |-> agg.mf,
                              outputs |-> EmptyRecord,
                              pending |-> pending,
                              call |-> Call(Head(pending), agg.mf[Head(pending)])]
                /\ outcome' = outcome
                /\ result' = NoResult
  /\ UNCHANGED <<variables, rules, config>>

Evaluate(inputs) == Begin("evaluate", inputs)

EvaluateVerbose(inputs) == Begin("evaluateVerbose", inputs)

\* what a step of the defuzzifier call in progress does to the call
Advance ==
  LET c == Step(locals.call)
      name == Head(locals.pending)
      outputs == MapSet(locals.outputs, name, c.value)
      rest == Tail(locals.pending)
  IN  IF ~c.returned
        THEN /\ locals' = [locals EXCEPT !.call = c]
             /\ UNCHANGED <<pc, outcome, result>>
      ELSE IF rest # <<>>
        THEN /\ locals' = [locals EXCEPT
                             !.outputs = outputs, !.pending = rest,
                             !.call = Call(Head(rest), locals.aggregatedOutputs[Head(rest)])]
             /\ UNCHANGED <<pc, outcome, result>>
      ELSE /\ pc' = "idle"
           /\ locals' = NoLocals
           /\ outcome' = Done(locals.op, "none", locals.inputs)
           /\ result' = Returned(locals.op, outputs, locals.fuzzification,
                                 locals.ruleEvaluations, locals.aggregatedOutputs)

\* a defuzzifyOutputs that consumes the rule list
DefuzzifyStep_DropsRules ==
  /\ pc = "defuzzify"
  /\ Advance
  /\ rules' = <<>>
  /\ UNCHANGED <<variables, config>>

DefuzzifyStep ==
  /\ pc = "defuzzify"
  /\ Advance
  /\ UNCHANGED <<variables, rules, config>>

\* the outputs of evaluate as a function of registry, rules, configuration and
\* inputs, for engines whose defuzzifier calls all return
EvaluateOutputs(reg, rs, cfg, inputs) ==
  LET fuzzification == fuzzify(reg, inputs)
      ruleEvaluations == evaluateRules(rs, cfg[2], cfg[3], fuzzification)
      agg == aggregate(reg, cfg[4], cfg[5], ruleEvaluations)
  IN  [k \in {agg.keys[i] : i \in 1..Len(agg.keys)} \cap DOMAIN reg |->
         defuzzify(agg.mf[k], cfg[1], R(reg[k].range[1]), R(reg[k].range[2]), cfg[6])]


(***************************************************************************)
(* Spec: an engine built from nothing by registration calls, interleaved   *)
(* with evaluations.  new FuzzyEngine({resolution}) with the other         *)
(* settings at their defaults.                                             *)
(***************************************************************************)
r_tlo_flo == Rule(<<Clause("t", "lo")>>, <<Then("f", "lo")>>)
r_list_fhi == Weighted(<<Clause("f", "lo"), ClauseList("t", <<"lo", "hi">>)>>,
                       <<Then("f", "hi")>>, Half)
r_ulo_flo == Rule(<<Clause("u", "lo")>>, <<Then("f", "lo")>>)
r_tlo_ulo == Rule(<<Clause("t", "lo")>>, <<Then("f", "lo"), Then("u", "lo")>>)
r_flo_tlo == Rule(<<Clause("f", "lo")>>, <<Then("t", "lo")>>)

RuleU == {r_tlo_flo, r_list_fhi, r_ulo_flo, r_tlo_ulo, r_flo_tlo}
RuleListU == {<<a, b>> : a \in RuleU, b \in RuleU}
InputNames == {"t"}
OutputNames == {"f", "t"}
SetsU == {BothTerms, OnlyLo}
OutputRangeU == {<<>>, <<0, 2>>}
In(name, value) == [name |-> name, value |-> R(value)]
InputsU == {<<In("t", 1)>>}
VerboseInputsU == {<<In("t", 0), In("f", 1), In("u", 1)>>}

Defaults(res) ==
  /\ defuzzificationMethod = "centroid"
  /\ andMethod = "min"
  /\ orMethod = "max"
  /\ implicationMethod = "min"
  /\ aggregationMethod = "max"
  /\ resolution = res

Init ==
  /\ variables = [n \in {} |-> Zero]
  /\ rules = <<>>
  /\ \E res \in 1..MaxRes : Defaults(res)
  /\ pc = "idle"
  /\ locals = NoLocals
  /\ outcome = Done("constructor", "none", <<>>)
  /\ result = NoResult

Next ==
  \/ \E name \in InputNames, sets \in SetsU : AddVariable(name, sets, <<>>)
  \/ \E name \in OutputNames, sets \in SetsU, range \in OutputRangeU :
        AddOutput(name, sets, range)
  \/ \E rule \in RuleU : AddRule(rule)
  \/ \E rs \in RuleListU : AddRules(rs)
  \/ ClearRules
  \/ \E inputs \in InputsU : Evaluate(inputs)
  \/ \E inputs \in VerboseInputsU : EvaluateVerbose(inputs)
  \/ DefuzzifyStep

Spec == Init /\ [][Next]_vars


(***************************************************************************)
(* Introspection.  A query that throws returns nothing; the model records  *)
(* the kind of the error in outcome.err and what was returned in result.   *)
(***************************************************************************)
\* getMembership without the check of the term
getMembership_NoTermCheck(reg, variable, term, value) ==
  IF ~Has(reg, variable) THEN [err |-> "UnknownVariable", value |-> NoResult]
  ELSE IF ~HasTerm(reg[variable], term) THEN [err |-> "none", value |-> Zero]
  ELSE [err |-> "none", value |-> MF(reg[variable].sets[term], value)]

getMembership(reg, variable, term, value) ==
  IF ~Has(reg, variable) THEN [err |-> "UnknownVariable", value |-> NoResult]
  ELSE IF ~HasTerm(reg[variable], term) THEN [err |-> "UnknownTerm", value |-> NoResult]
  ELSE [err |-> "none", value |-> MF(reg[variable].sets[term], value)]

getMemberships(reg, variable, value) ==
  IF ~Has(reg, variable) THEN [err |-> "UnknownVariable", value |-> NoResult]
  ELSE [err |-> "none",
        value |-> [term \in DOMAIN reg[variable].sets |->
                     MF(reg[variable].sets[term], value)]]

Query(op, args, ret) ==
  /\ pc = "idle"
  /\ outcome' = Done(op, ret.err, args)
  /\ result' = ret.value
  /\ UNCHANGED <<variables, rules, config, pc, locals>>

GetMembership(variable, term, value) ==
  Query("getMembership", <<variable, term, value>>,
        getMembership(variables, variable, term, value))

GetMemberships(variable, value) ==
  Query("getMemberships", <<variable, value>>,
        getMemberships(variables, variable, value))

GetVariables == Query("getVariables", <<>>, [err |-> "none", value |-> getVariables])

GetRules == Query("getRules", <<>>, [err |-> "none", value |-> getRules])

(***************************************************************************)
(* RegistrySpec: an engine on which variables are registered and           *)
(* registered again under the same names, rules are added and cleared, and *)
(* the registry is queried.                                                *)
(***************************************************************************)
RegNames == {"t", "f"}
RegRuleU == {r_flo_tlo}
QueryNames == {"t", "u"}
QueryTerms == {"lo", "hi"}
QueryValues == {R(1)}

NextRegistry ==
  \/ \E name \in RegNames, sets \in SetsU, range \in OutputRangeU :
        AddVariable(name, sets, range)
  \/ \E name \in RegNames, sets \in SetsU, range \in OutputRangeU :
        AddOutput(name, sets, range)
  \/ \E rule \in RegRuleU : AddRule(rule)
  \/ ClearRules
  \/ \E variable \in QueryNames, term \in QueryTerms, value \in QueryValues :
        GetMembership(variable, term, value)
  \/ \E variable \in QueryNames, value \in QueryValues :
        GetMemberships(variable, value)
  \/ GetVariables
  \/ GetRules

RegistrySpec == Init /\ [][NextRegistry]_vars

(***************************************************************************)
(* ShapeSpec: the membership-shape constructors called with control points *)
(* in every order, and the function a call returned applied at the points  *)
(* of a grid.  outcome holds the call, result what it returned, locals the *)
(* values of the function.                                                 *)
(***************************************************************************)
Points == 0..2
Sigmas == -1..1
Grid == {Norm(n, 2) : n \in -1..5}
Applicable == {"triangular", "trapezoidal", "sShaped", "zShaped"}

\* what a constructor called with args leaves behind: the function it
\* returns, or the error it throws
Construct(shape, args, ret) ==
  /\ outcome' = Done(shape, IF IsError(ret) THEN "Error" ELSE "none", args)
  /\ result' = IF IsError(ret) THEN NoResult ELSE ret
  /\ locals' = NoLocals
  /\ UNCHANGED <<variables, rules, config, pc>>

Triangular(a, b, c) ==
  /\ pc = "idle"
  /\ Construct("triangular", <<a, b, c>>, triangular(a, b, c))

Trapezoidal(a, b, c, d) ==
  /\ pc = "idle"
  /\ Construct("trapezoidal", <<a, b, c, d>>, trapezoidal(a, b, c, d))

Gaussian(center, sigma) ==
  /\ pc = "idle"
  /\ Construct("gaussian", <<center, sigma>>, gaussian(center, sigma))

Bell(center, width, slope) ==
  /\ pc = "idle"
  /\ Construct("bell", <<center, width, slope>>, bell(center, width, slope))

PiShaped(a, b, c, d) ==
  /\ pc = "idle"
  /\ Construct("piShaped", <<a, b, c, d>>, piShaped(a, b, c, d))

SShaped(a, b) ==
  /\ pc = "idle"
  /\ Construct("sShaped", <<a, b>>, sShaped(a, b))

ZShaped(a, b) ==
  /\ pc = "idle"
  /\ Construct("zShaped", <<a, b>>, zShaped(a, b))

\* the caller applies the function it was given at each point of the grid
ApplyOnGrid ==
  /\ pc = "idle"
  /\ outcome.op \in Applicable
  /\ outcome.err = "none"
  /\ locals = NoLocals
  /\ locals' = [x \in Grid |-> MF(result, x)]
  /\ UNCHANGED <<variables, rules, config, pc, outcome, result>>

NextShape ==
  \/ \E a, b, c \in Points : Triangular(a, b, c)
  \/ \E a, b, c, d \in Points : Trapezoidal(a, b, c, d)
  \/ \E center \in Points, sigma \in Sigmas : Gaussian(center, sigma)
  \/ \E center \in Points, width \in Sigmas : Bell(center, width, 2)
  \/ \E a, b, c, d \in Points : PiShaped(a, b, c, d)
  \/ \E a, b \in Points : SShaped(a, b)
  \/ \E a, b \in Points : ZShaped(a, b)
  \/ ApplyOnGrid

ShapeSpec == Init /\ [][NextShape]_vars

(***************************************************************************)
(* Set comparisons.  isSubset and isEqual are sampling loops               *)
(*   for (let x = min; x <= max; x += step) { if (...) return false; }     *)
(* A call is modelled by its frame, one iteration to a step, as the calls  *)
(* of the defuzzifiers are.                                                *)
(***************************************************************************)
\* Math.abs(mfA(x) - mfB(x)) > tolerance, with the default tolerance 1e-6
EqualTolerance == <<1, 1000000>>

\* the test of the loop body.  In isSubset, mfA(x) > mfB(x) + 1e-10: two
\* rationals of the model differ by 0 or by more than 4e-10.
Refutes(c) ==
  LET a == MF(c.mfA, c.x)
      b == MF(c.mfB, c.x)
  IN  IF c.fn = "isSubset" THEN RLt(b, a)
      ELSE RLt(EqualTolerance, RAbs(RSub(a, b)))

EnterCompare(fn, mfA, mfB, range, res) ==
  [fn |-> fn, mfA |-> mfA, mfB |-> mfB, range |-> range, resolution |-> res,
   max |-> R(range[2]),
   step |-> RDiv(RSub(R(range[2]), R(range[1])), R(res)),
   x |-> R(range[1])]

Compare(fn, mfA, mfB, range, res) ==
  /\ pc = "idle"
  /\ pc' = "compare"
  /\ locals' = EnterCompare(fn, mfA, mfB, range, res)
  /\ result' = NoResult
  /\ UNCHANGED <<variables, rules, config, outcome>>

IsSubset(mfA, mfB, range, res) == Compare("isSubset", mfA, mfB, range, res)

IsEqual(mfA, mfB, range, res) == Compare("isEqual", mfA, mfB, range, res)

CompareReturn(value) ==
  /\ pc' = "idle"
  /\ outcome' = Done(locals.fn, "none",
                     <<locals.mfA, locals.mfB, locals.range, locals.resolution>>)
  /\ result' = value
  /\ locals' = NoLocals

CompareStep ==
  /\ pc = "compare"
  /\ IF RLe(locals.x, locals.max)
       THEN IF Refutes(locals)
              THEN CompareReturn(FALSE)
              ELSE /\ locals' = [locals EXCEPT !.x = RAdd(@, locals.step)]
                   /\ UNCHANGED <<pc, outcome, result>>
       ELSE CompareReturn(TRUE)
  /\ UNCHANGED <<variables, rules, config>>

(***************************************************************************)
(* CompareSpec: isSubset and isEqual called on pairs of functions, over a  *)
(* range that may be a single point.  A call in progress keeps running:    *)
(* weak fairness of CompareStep.                                           *)
(***************************************************************************)
CompareMFs == {LoMF, HiMF, constant(Half)}
CompareRangeU == {<<0, 2>>, <<1, 1>>}

NextCompare ==
  \/ \E mfA, mfB \in CompareMFs, range \in CompareRangeU, res \in 1..MaxRes :
        IsSubset(mfA, mfB, range, res)
  \/ \E mfA, mfB \in CompareMFs, range \in CompareRangeU, res \in 1..MaxRes :
        IsEqual(mfA, mfB, range, res)
  \/ CompareStep

CompareSpec == Init /\ [][NextCompare]_vars /\ WF_vars(CompareStep)

(***************************************************************************)
(* EvalSpec: an engine that has registered inputs t and h, output f and a  *)
(* rule list, and is then reconfigured and evaluated.                      *)
(***************************************************************************)
e_tlo_flo == Rule(<<Clause("t", "lo")>>, <<Then("f", "lo")>>)
e_thi_fhi == Weighted(<<Clause("t", "hi")>>, <<Then("f", "hi")>>, Half)
e_list_fhi == Rule(<<ClauseList("t", <<"lo", "hi">>), Clause("h", "hi")>>,
                   <<Then("f", "hi")>>)
e_zero == Weighted(<<Clause("t", "lo")>>, <<Then("f", "hi")>>, Zero)
e_flo_flo == Rule(<<Clause("f", "lo"), Clause("t", "hi")>>, <<Then("f", "lo")>>)

EvalRuleLists == {<<>>,
                  <<e_tlo_flo>>,
                  <<e_tlo_flo, e_thi_fhi>>,
                  <<e_list_fhi, e_tlo_flo, e_thi_fhi>>,
                  <<e_zero, e_flo_flo>>}
EvalRangeU == {<<0, 2>>, <<-2, 2>>}
EvalInputsU == {<<In("t", 1)>>,
                <<In("t", 1), In("h", 1)>>,
                <<In("h", 2)>>,
                <<In("t", 0), In("h", 2)>>,
                <<In("t", 2), In("f", 2), In("u", 1)>>}

EvalRegistry(range) ==
  [n \in {"t", "h", "f"} |->
     [name |-> n, sets |-> BothTerms,
      range |-> IF n = "f" THEN range ELSE inferRange(BothTerms),
      isOutput |-> n = "f"]]

InitEval ==
  /\ \E range \in EvalRangeU : variables = EvalRegistry(range)
  /\ rules \in EvalRuleLists
  /\ \E res \in 1..MaxRes : Defaults(res)
  /\ pc = "idle"
  /\ locals = NoLocals
  /\ outcome = Done("addRules", "none", <<>>)
  /\ result = NoResult

NextEval ==
  \/ \E method \in Methods.defuzzification : SetDefuzzificationMethod(method)
  \/ \E method \in Methods.and : SetAndMethod(method)
  \/ \E method \in Methods.or : SetOrMethod(method)
  \/ \E method \in Methods.implication : SetImplicationMethod(method)
  \/ \E method \in Methods.aggregation : SetAggregationMethod(method)
  \/ \E res \in 1..MaxRes : SetResolution(res)
  \/ \E inputs \in EvalInputsU : EvaluateVerbose(inputs)
  \/ DefuzzifyStep

EvalSpec == InitEval /\ [][NextEval]_vars

(***************************************************************************)
(* FallbackSpec: the same engine set to method names that the type of the  *)
(* setter's parameter excludes and the running code accepts.               *)
(***************************************************************************)
Unknown == "unknown"
FallbackMethods == [defuzzification |-> {"som", Unknown},
                    and |-> {"product", Unknown},
                    or |-> {"sum", "probor", Unknown},
                    implication |-> {"min", "product", Unknown},
                    aggregation |-> {"max", "sum", Unknown}]
FallbackInputsU == {<<In("t", 1)>>, <<In("t", 1), In("h", 1)>>}

InitFallback ==
  /\ variables = EvalRegistry(<<0, 2>>)
  /\ rules = <<e_list_fhi, e_tlo_flo, e_thi_fhi>>
  /\ \E res \in 1..MaxRes : Defaults(res)
  /\ pc = "idle"
  /\ locals = NoLocals
  /\ outcome = Done("addRules", "none", <<>>)
  /\ result = NoResult

NextFallback ==
  \/ \E method \in FallbackMethods.defuzzification : SetDefuzzificationMethod(method)
  \/ \E method \in FallbackMethods.and : SetAndMethod(method)
  \/ \E method \in FallbackMethods.or : SetOrMethod(method)
  \/ \E method \in FallbackMethods.implication : SetImplicationMethod(method)
  \/ \E method \in FallbackMethods.aggregation : SetAggregationMethod(method)
  \/ \E inputs \in FallbackInputsU : EvaluateVerbose(inputs)
  \/ DefuzzifyStep

FallbackSpec == InitFallback /\ [][NextFallback]_vars

(***************************************************************************)
(* FanSpec: the engine of the fan scenario, built with the default         *)
(* configuration and evaluated at three temperatures.                      *)
(***************************************************************************)
DefaultResolution == 100

temperatureSets ==
  [term \in {"cold", "warm", "hot"} |->
     CASE term = "cold" -> trapezoidal(0, 0, 20, 40)
       [] term = "warm" -> triangular(30, 50, 70)
       [] term = "hot" -> trapezoidal(60, 80, 100, 100)]

fanSpeedSets ==
  [term \in {"low", "medium", "high"} |->
     CASE term = "low" -> triangular(0, 25, 50)
       [] term = "medium" -> triangular(30, 50, 70)
       [] term = "high" -> triangular(50, 75, 100)]

fanRules ==
  <<Rule(<<Clause("temperature", "cold")>>, <<Then("fanSpeed", "low")>>),
    Rule(<<Clause("temperature", "warm")>>, <<Then("fanSpeed", "medium")>>),
    Rule(<<Clause("temperature", "hot")>>, <<Then("fanSpeed", "high")>>)>>

FanRegistry ==
  [n \in {"temperature", "fanSpeed"} |->
     IF n = "temperature"
       THEN [name |-> n, sets |-> temperatureSets,
             range |-> inferRange(temperatureSets), isOutput |-> FALSE]
       ELSE [name |-> n, sets |-> fanSpeedSets,
             range |-> <<0, 100>>, isOutput |-> TRUE]]

Temperatures == {10, 50, 90}

InitFan ==
  /\ variables = FanRegistry
  /\ rules = fanRules
  /\ Defaults(DefaultResolution)
  /\ pc = "idle"
  /\ locals = NoLocals
  /\ outcome = Done("addRules", "none", <<>>)
  /\ result = NoResult

FanInputsU == {<<In("temperature", temperature)>> : temperature \in Temperatures}

NextFan ==
  \/ \E inputs \in FanInputsU : Evaluate(inputs)
  \/ DefuzzifyStep

FanSpec == InitFan /\ [][NextFan]_vars

(***************************************************************************)
(* TermSpec: the same engine with an output range that may be a single     *)
(* point.  The engine is single-threaded: a defuzzifier call in progress   *)
(* keeps running, which is weak fairness of DefuzzifyStep.                 *)
(*                                                                         *)
(* With min = max the step is 0.  An iteration of centroid on a function   *)
(* that is 0 at min, of bisector, of som or of lom then leaves every local *)
(* of the call as it was, so the state space stays finite with no cap on   *)
(* the number of iterations.  meanOfMaximum pushes x onto maxPoints in     *)
(* every iteration, a list that grows for as long as the loop runs; the    *)
(* methods set here are the other four.                                    *)
(***************************************************************************)
TermRangeU == {<<0, 2>>, <<-2, -2>>}
TermInputsU == {<<In("t", 1)>>, <<In("h", 2)>>, <<In("t", 0), In("h", 2)>>}
TermMethods == Methods.defuzzification \ {"mom"}

InitTerm ==
  /\ \E range \in TermRangeU : variables = EvalRegistry(range)
  /\ rules = <<e_tlo_flo, e_thi_fhi>>
  /\ \E res \in 1..MaxRes : Defaults(res)
  /\ pc = "idle"
  /\ locals = NoLocals
  /\ outcome = Done("addRules", "none", <<>>)
  /\ result = NoResult

NextTerm ==
  \/ \E method \in TermMethods : SetDefuzzificationMethod(method)
  \/ \E inputs \in TermInputsU : EvaluateVerbose(inputs)
  \/ DefuzzifyStep

TermSpec == InitTerm /\ [][NextTerm]_vars /\ WF_vars(DefuzzifyStep)


(***************************************************************************)
(* Properties of registration, checked under Spec.                        *)
(***************************************************************************)
\* some antecedent clause of the rule names an unregistered variable or a
\* term its variable does not define
AntecedentInvalid(rule) ==
  \E i \in 1..Len(rule.if) :
     \/ rule.if[i].var \notin DOMAIN variables
     \/ \E j \in 1..Len(rule.if[i].terms) :
           rule.if[i].terms[j] \notin DOMAIN variables[rule.if[i].var].sets

\* what is wrong with a consequent entry, "none" when nothing is
ConsequentFault(entry) ==
  IF entry.var \notin DOMAIN variables THEN "UnknownVariable"
  ELSE IF ~variables[entry.var].isOutput THEN "NotAnOutput"
  ELSE IF entry.term \notin DOMAIN variables[entry.var].sets THEN "UnknownTerm"
  ELSE "none"

FaultyEntries(rule) ==
  {i \in 1..Len(rule.then) : ConsequentFault(rule.then[i]) # "none"}

\* C1: addRule of a rule whose antecedent names an unregistered variable, or
\* a term (single or listed) its variable does not define, throws and
\* getRules returns afterwards what it returned before.
C1_AntecedentRejected ==
  [][\A rule \in RuleU :
       (AddRule(rule) /\ AntecedentInvalid(rule))
         => /\ outcome'.err \in {"UnknownVariable", "UnknownTerm"}
            /\ getRules' = getRules]_vars

\* a listed term missing on a registered variable was rejected and the rule
\* added before it is still the only one
C1_Witness ==
  /\ outcome = Done("addRule", "UnknownTerm", r_list_fhi)
  /\ "t" \in DOMAIN variables
  /\ "hi" \notin DOMAIN variables["t"].sets
  /\ rules = <<r_tlo_flo>>

\* C2: addRule of a rule with a valid antecedent whose consequent names an
\* unregistered variable, an input variable, or a term the output variable
\* does not define throws UnknownVariable, NotAnOutput, UnknownTerm
\* respectively and leaves the rule list unchanged.
C2_ConsequentRejected ==
  [][\A rule \in RuleU :
       (AddRule(rule) /\ ~AntecedentInvalid(rule) /\ FaultyEntries(rule) # {})
         => /\ outcome'.err = ConsequentFault(rule.then[SetMin(FaultyEntries(rule))])
            /\ rules' = rules]_vars

\* a consequent naming an input variable was rejected with NotAnOutput
C2_Witness ==
  /\ outcome = Done("addRule", "NotAnOutput", r_flo_tlo)
  /\ "t" \in DOMAIN variables
  /\ ~variables["t"].isOutput
  /\ rules = <<r_tlo_flo>>

\* C3: addRules is all-or-nothing: when a rule of the list fails validation
\* the call throws and the rule list is what it was before the call.
C3_AllOrNothing ==
  [][\A rs \in RuleListU :
       (AddRules(rs) /\ outcome'.err # "none") => rules' = rules]_vars

\* C6: a step of evaluate or evaluateVerbose (one that starts an evaluation,
\* continues one or returns its result) leaves the registry, the rule list
\* and the six settings unchanged.
C6_EvaluateFrame ==
  [][(pc = "defuzzify" \/ pc' = "defuzzify" \/ result' # NoResult)
       => /\ variables' = variables
          /\ rules' = rules
          /\ config' = config]_vars

\* an evaluation whose inputs named an output variable and an unregistered
\* name returned, on an engine that has rules
C6_Witness ==
  /\ outcome.op = "evaluateVerbose"
  /\ result # NoResult
  /\ outcome.args \in VerboseInputsU
  /\ Len(rules) = 2
  /\ DOMAIN result.outputs # {}


(***************************************************************************)
(* Properties of evaluation, checked under EvalSpec and EvalLive.          *)
(***************************************************************************)
\* the stored rules naming output variable k in their consequent
Naming(k) ==
  {i \in 1..Len(rules) : \E j \in 1..Len(rules[i].then) : rules[i].then[j].var = k}

\* C4: an output variable whose rules all have firing strength 0 (its
\* aggregated function is 0 at every x) gets the midpoint of its range from
\* evaluate, whichever of the five defuzzification methods is configured.
C4_ZeroGivesMidpoint ==
  (outcome.op = "evaluateVerbose" /\ result # NoResult)
    => \A k \in DOMAIN result.outputs :
         (\A i \in Naming(k) : result.ruleEvaluations[i].firingStrength = Zero)
           => result.outputs[k] =
                Midpoint(R(variables[k].range[1]), R(variables[k].range[2]))

\* C5: every evaluation that has started returns.
C5_EvaluateTerminates == (pc = "defuzzify") ~> (pc = "idle")


\* the names the inputs of the last evaluation supplied, and their values
Supplied(n) == \E j \in 1..Len(outcome.args) : outcome.args[j].name = n
ValueOf(n) == outcome.args[CHOOSE j \in 1..Len(outcome.args) : outcome.args[j].name = n].value
IsInput(n) == n \in DOMAIN variables /\ ~variables[n].isOutput

\* the degree of the supplied value of variable v in its registered term
Degree(v, term) == MF(variables[v].sets[term], ValueOf(v))

RangeOf(s) == {s[i] : i \in 1..Len(s)}
Greatest(ds) == CHOOSE d \in RangeOf(ds) : \A e \in RangeOf(ds) : RLe(e, d)
Least(ds) == CHOOSE d \in RangeOf(ds) : \A e \in RangeOf(ds) : RLe(d, e)

RECURSIVE Product(_)
Product(ds) == IF ds = <<>> THEN One ELSE RMul(Head(ds), Product(Tail(ds)))

\* the configured OR and AND of a non-empty sequence of degrees:
\* max or the probabilistic sum 1 - (1-d1)...(1-dn); min or the product
ConfiguredOr(ds) ==
  IF orMethod = "max" THEN Greatest(ds)
  ELSE RSub(One, Product([i \in 1..Len(ds) |-> RSub(One, ds[i])]))

ConfiguredAnd(ds) == IF andMethod = "min" THEN Least(ds) ELSE Product(ds)

ClauseDegree(cl) ==
  IF Len(cl.terms) = 1 THEN Degree(cl.var, cl.terms[1])
  ELSE ConfiguredOr([i \in 1..Len(cl.terms) |-> Degree(cl.var, cl.terms[i])])

StrengthOver(matched) ==
  IF matched = <<>> THEN Zero
  ELSE ConfiguredAnd([i \in 1..Len(matched) |-> ClauseDegree(matched[i])])

VerboseReturned == outcome.op = "evaluateVerbose" /\ result # NoResult

\* C7 as stated: the strength of a rule without weight is the configured AND
\* over the clauses whose variable was supplied, each the configured OR of its
\* terms' degrees, and 0 when no clause is matched.
C7_SuppliedClauses ==
  VerboseReturned =>
    \A i \in 1..Len(rules) :
       ~rules[i].hasWeight =>
         result.ruleEvaluations[i].firingStrength =
           StrengthOver(SelectSeq(rules[i].if, LAMBDA cl : Supplied(cl.var)))

\* C7 amended: the AND is over the clauses whose variable was supplied and is
\* registered as an input variable; a clause on a variable that was not
\* supplied, or that is registered as an output, is skipped.
C7_FuzzifiedClauses ==
  VerboseReturned =>
    \A i \in 1..Len(rules) :
       ~rules[i].hasWeight =>
         result.ruleEvaluations[i].firingStrength =
           StrengthOver(SelectSeq(rules[i].if,
                                  LAMBDA cl : Supplied(cl.var) /\ IsInput(cl.var)))

\* t supplied and h not: the rule with a list on t and a clause on h fired
\* with the strength of its t clause alone
C7_Witness ==
  /\ VerboseReturned
  /\ outcome.args = <<In("t", 1)>>
  /\ Len(rules) = 3
  /\ rules[1] = e_list_fhi
  /\ result.ruleEvaluations[1].firingStrength = IF orMethod = "max" THEN Half ELSE <<3, 4>>

\* the points at which implied functions are compared
ProbePoints == {<<n, 2>> : n \in -5..9}

\* C8: the recorded strength of a rule with weight w is w times the strength
\* of the same rule without weight, and the implied function of every
\* contribution of a rule with weight 0 is 0 at every point, under either
\* implication.
C8_Weight ==
  VerboseReturned =>
    \A i \in 1..Len(rules) :
       LET ev == result.ruleEvaluations[i]
           unweighted ==
             FiringStrength(Fuzzified(result.fuzzification),
                            getAndOperator(andMethod), getOrOperator(orMethod),
                            [rules[i] EXCEPT !.hasWeight = FALSE])
       IN  /\ rules[i].hasWeight => ev.firingStrength = RMul(rules[i].weight, unweighted)
           /\ ~rules[i].hasWeight => ev.firingStrength = unweighted
           /\ (rules[i].hasWeight /\ rules[i].weight = Zero) =>
                \A j \in 1..Len(ev.outputContributions), x \in ProbePoints :
                   LET q == ev.outputContributions[j]
                   IN  MF(applyImplication(implicationMethod,
                                           variables[q.outputVar].sets[q.term],
                                           q.strength), x) = Zero

\* a rule with weight 0 whose antecedent degree is 1 was evaluated under
\* product implication
C8_Witness ==
  /\ VerboseReturned
  /\ implicationMethod = "product"
  /\ outcome.args = <<In("t", 0), In("h", 2)>>
  /\ rules = <<e_zero, e_flo_flo>>
  /\ Degree("t", "lo") = One
  /\ result.ruleEvaluations[1].firingStrength = Zero

RuleOrders(n) ==
  {p \in [1..n -> 1..n] : \A i, j \in 1..n : p[i] = p[j] => i = j}
Permuted(rs, p) == [i \in 1..Len(rs) |-> rs[p[i]]]

AllNames == {"t", "h", "f", "u"}

\* C10: evaluateVerbose returns one fuzzification record for each supplied name
\* that is a registered input variable, none for any other name, and one
\* rule-evaluation record per stored rule.
C10_Records ==
  VerboseReturned =>
    /\ \A i \in 1..Len(result.fuzzification) :
          result.fuzzification[i].variable \in AllNames
    /\ \A n \in AllNames :
          Cardinality({i \in 1..Len(result.fuzzification) :
                         result.fuzzification[i].variable = n})
            = IF Supplied(n) /\ IsInput(n) THEN 1 ELSE 0
    /\ Len(result.ruleEvaluations) = Len(rules)
    /\ \A i \in 1..Len(rules) : result.ruleEvaluations[i].rule = rules[i]

\* inputs naming an input variable, an output variable and an unregistered
\* name gave one fuzzification record, and three rules three records
C10_Witness ==
  /\ VerboseReturned
  /\ outcome.args = <<In("t", 2), In("f", 2), In("u", 1)>>
  /\ Len(result.fuzzification) = 1
  /\ Len(rules) = 3
  /\ Len(result.ruleEvaluations) = 3


(***************************************************************************)
(* Properties of the registry, checked under RegistrySpec and Spec.       *)
(***************************************************************************)
RegisteredAs(name, sets, range, isOutput) ==
  /\ DOMAIN variables' = DOMAIN variables \cup {name}
  /\ variables'[name].name = name
  /\ variables'[name].sets = sets
  /\ range # <<>> => variables'[name].range = range
  /\ variables'[name].isOutput = isOutput
  /\ \A n \in DOMAIN variables \ {name} : variables'[n] = variables[n]

\* C11: a registration leaves one variable under its name, with the terms,
\* range and role just given, and every other name as it was; nothing but a
\* registration changes the registry; getVariables lists each registered name
\* once and nothing else.
C11_LastRegistrationWins ==
  [][/\ outcome'.op \in {"addVariable", "addOutput"} =>
          \A name \in RegNames, sets \in SetsU, range \in OutputRangeU :
            /\ AddVariable(name, sets, range) => RegisteredAs(name, sets, range, FALSE)
            /\ AddOutput(name, sets, range) => RegisteredAs(name, sets, range, TRUE)
     /\ variables' # variables =>
          \E name \in RegNames, sets \in SetsU, range \in OutputRangeU :
            AddVariable(name, sets, range) \/ AddOutput(name, sets, range)
     /\ LET listed == getVariables'
        IN  /\ \A n \in DOMAIN variables' :
                 Cardinality({i \in 1..Len(listed) : listed[i].name = n}) = 1
            /\ \A i \in 1..Len(listed) : listed[i].name \in DOMAIN variables'
    ]_vars

\* t was an output when the rule f lo -> t lo was added, and has since been
\* registered again as an input
C11_Witness ==
  /\ outcome.op = "addVariable"
  /\ \E i \in 1..Len(rules) : rules[i] = r_flo_tlo
  /\ "t" \in DOMAIN variables
  /\ ~variables["t"].isOutput
  /\ Len(getVariables) = 2

\* C12: clearRules leaves an empty rule list and leaves the registry and the
\* six settings as they were.
C12_ClearRulesFrame ==
  [][ClearRules => /\ getRules' = <<>>
                   /\ variables' = variables
                   /\ config' = config]_vars

\* clearRules has returned on an engine with both variables registered
C12_Witness ==
  /\ outcome.op = "clearRules"
  /\ rules = <<>>
  /\ DOMAIN variables = {"t", "f"}


QueryOps == {"getMembership", "getMemberships", "getVariables", "getRules"}

\* C15: getMembership and getMemberships fail with UnknownVariable for an
\* unregistered name, getMembership fails with UnknownTerm for a term its
\* variable does not define, and none of the four queries, failing or not,
\* changes the registry, the rule list or a setting.
C15_Introspection ==
  [][outcome'.op \in QueryOps =>
       /\ variables' = variables
       /\ rules' = rules
       /\ config' = config
       /\ LET a == outcome'.args
          IN  /\ (outcome'.op \in {"getMembership", "getMemberships"}
                    /\ a[1] \notin DOMAIN variables)
                   => outcome'.err = "UnknownVariable" /\ result' = NoResult
              /\ (outcome'.op = "getMembership"
                    /\ a[1] \in DOMAIN variables
                    /\ a[2] \notin DOMAIN variables[a[1]].sets)
                   => outcome'.err = "UnknownTerm" /\ result' = NoResult
    ]_vars

\* getMembership has failed for a term that t, registered with one term,
\* does not define, on an engine that holds a rule
C15_Witness ==
  /\ outcome = Done("getMembership", "UnknownTerm", <<"t", "hi", R(1)>>)
  /\ "t" \in DOMAIN variables
  /\ rules # <<>>


(***************************************************************************)
(* Properties of unrecognized method names, checked under FallbackSpec.   *)
(***************************************************************************)
Recognized == [defuzzification |-> {"centroid", "bisector", "mom", "som", "lom"},
               and |-> {"min", "product"},
               or |-> {"max", "sum", "probor"},
               implication |-> {"min", "product"},
               aggregation |-> {"max", "sum"}]

\* the method a name stands for if unrecognized names mean the standard one
OrStandard(method, recognized, standard) ==
  IF method \in recognized THEN method ELSE standard

\* C13: the outputs of an evaluation are those of the same evaluation with
\* an unrecognized implication name replaced by "min" and an unrecognized
\* aggregation name replaced by "max", and the evaluation raises no error.
C13_StandardImplicationAggregation ==
  VerboseReturned =>
    /\ outcome.err = "none"
    /\ result.outputs =
         EvaluateOutputs(variables, rules,
           <<defuzzificationMethod, andMethod, orMethod,
             OrStandard(implicationMethod, Recognized.implication, "min"),
             OrStandard(aggregationMethod, Recognized.aggregation, "max"),
             resolution>>,
           outcome.args)

\* C14: for a name outside its recognized set getAndOperator returns the min
\* T-norm, getOrOperator the max S-norm and getDefuzzifier centroid, so the
\* rule evaluations, the defuzzifier called and the outputs are those of the
\* engine with the three names replaced by min, max and centroid.
C14_DefaultOperators ==
  LET andM == OrStandard(andMethod, Recognized.and, "min")
      orM == OrStandard(orMethod, Recognized.or, "max")
      defuzzM == OrStandard(defuzzificationMethod, Recognized.defuzzification, "centroid")
  IN  /\ getAndOperator(andMethod) = getAndOperator(andM)
      /\ getOrOperator(orMethod) = getOrOperator(orM)
      /\ getDefuzzifier(defuzzificationMethod) = getDefuzzifier(defuzzM)
      /\ pc = "defuzzify" => locals.call.fn = getDefuzzifier(defuzzM)
      /\ VerboseReturned =>
           /\ outcome.err = "none"
           /\ result.ruleEvaluations =
                evaluateRules(rules, andM, orM, result.fuzzification)
           /\ result.outputs =
                EvaluateOutputs(variables, rules,
                  <<defuzzM, andM, orM, implicationMethod, aggregationMethod,
                    resolution>>,
                  outcome.args)

\* the three names were unrecognized when the rule with a list of terms and
\* two clauses fired with max over the list and min over the clauses
C14_Witness ==
  /\ VerboseReturned
  /\ andMethod = Unknown
  /\ orMethod = Unknown
  /\ defuzzificationMethod = Unknown
  /\ outcome.args = <<In("t", 1), In("h", 1)>>
  /\ result.ruleEvaluations[1].firingStrength = Half


(***************************************************************************)
(* Properties of the membership shapes, checked under ShapeSpec.          *)
(***************************************************************************)
Applied(shape) == outcome.op = shape /\ outcome.err = "none" /\ locals # NoLocals

\* f does not decrease from lo to hi
NonDecreasing(f, lo, hi) ==
  \A x, y \in Grid :
     (RLe(R(lo), x) /\ RLe(x, y) /\ RLe(y, R(hi))) => RLe(f[x], f[y])

NonIncreasing(f, lo, hi) ==
  \A x, y \in Grid :
     (RLe(R(lo), x) /\ RLe(x, y) /\ RLe(y, R(hi))) => RLe(f[y], f[x])

\* C16: the function of an accepted triangular(a,b,c) is 0 at a and at c,
\* 1 at b, non-decreasing on [a,b] and non-increasing on [b,c].
C16_TriangularShape ==
  Applied("triangular") =>
    LET a == outcome.args[1]
        b == outcome.args[2]
        c == outcome.args[3]
    IN  /\ locals[R(a)] = Zero
        /\ locals[R(c)] = Zero
        /\ locals[R(b)] = One
        /\ NonDecreasing(locals, a, b)
        /\ NonIncreasing(locals, b, c)

\* C17: the function of an accepted trapezoidal(a,b,c,d) is 1 at every point
\* of [b,c] and 0 at a and at d.
C17_TrapezoidalShape ==
  Applied("trapezoidal") =>
    LET a == outcome.args[1]
        b == outcome.args[2]
        c == outcome.args[3]
        d == outcome.args[4]
    IN  /\ \A x \in Grid : (RLe(R(b), x) /\ RLe(x, R(c))) => locals[x] = One
        /\ locals[R(a)] = Zero
        /\ locals[R(d)] = Zero

Ordered(args) == \A i \in 1..(Len(args) - 1) : args[i] <= args[i + 1]

\* C20: a constructor of a shape with ordered control points raises an error
\* and returns no function when the points are out of order, and gaussian and
\* bell do so for a sigma or a width that is not positive.
C20_InvalidShapeRejected ==
  /\ (outcome.op \in {"triangular", "trapezoidal", "piShaped", "sShaped", "zShaped"}
        /\ ~Ordered(outcome.args))
       => outcome.err = "Error" /\ result = NoResult
  /\ (outcome.op \in {"gaussian", "bell"} /\ outcome.args[2] <= 0)
       => outcome.err = "Error" /\ result = NoResult


(***************************************************************************)
(* Properties of the set comparisons, checked under CompareSpec.          *)
(***************************************************************************)
\* C18: a call of isEqual or isSubset with the same function on both sides
\* returns, and returns true.
C18_Reflexive ==
  (pc = "compare" /\ locals.mfA = locals.mfB)
    ~> (pc = "idle" /\ outcome.op \in {"isEqual", "isSubset"} /\ result = TRUE)


(***************************************************************************)
(* The fan scenario, checked under FanSpec.                               *)
(***************************************************************************)
FanReturned(temperature) ==
  /\ outcome = Done("evaluate", "none", <<In("temperature", temperature)>>)
  /\ result # NoResult

\* C19: evaluate returns a fanSpeed strictly between 0 and 100 for
\* temperature 50, below 50 for temperature 10 and above 50 for
\* temperature 90.
C19_FanScenario ==
  /\ FanReturned(50) => /\ RLt(R(0), result.outputs["fanSpeed"])
                        /\ RLt(result.outputs["fanSpeed"], R(100))
  /\ FanReturned(10) => RLt(result.outputs["fanSpeed"], R(50))
  /\ FanReturned(90) => RLt(R(50), result.outputs["fanSpeed"])

\* the three evaluations return: the last to return here is the cold one
C19_Witness ==
  /\ FanReturned(10)
  /\ resolution = DefaultResolution
  /\ "fanSpeed" \in DOMAIN result.outputs


(***************************************************************************)
(* Validity of the stored rules against the registry, checked under Spec.  *)
(***************************************************************************)
StoredRuleValid(rule) ==
  /\ ~AntecedentInvalid(rule)
  /\ FaultyEntries(rule) = {}

\* C21: in every state reachable through addVariable, addOutput, addRule,
\* addRules, clearRules and evaluate, every stored rule is valid against the
\* current registry: its antecedent variables and terms are registered and
\* each consequent names a variable registered as an output with that term.
C21_StoredRulesValid ==
  \A i \in 1..Len(rules) : StoredRuleValid(rules[i])


(***************************************************************************)
(* The operators of operators.ts called on their own: the T-norms and      *)
(* S-norms on a list of degrees, the cuts on a membership function.        *)
(***************************************************************************)
MaxArgs == 3
Degrees == {Zero, <<1, 4>>, Half, One}
DegreeLists == UNION {[1..n -> Degrees] : n \in 1..MaxArgs}
TNorms == {"tNormMin", "tNormProduct", "tNormLukasiewicz", "tNormDrastic"}
SNorms == {"sNormMax", "sNormSum", "sNormProbor", "sNormLukasiewicz", "sNormDrastic"}
CutMFs == {LoMF, HiMF, trapezoidal(0, 1, 1, 2), constant(Zero), constant(Half), constant(One)}
Cuts == {"alphaCut", "strongAlphaCut", "support", "core"}

\* op(...values)
CallNorm(op, values) ==
  /\ pc = "idle"
  /\ outcome' = Done(op, "none", values)
  /\ result' = Apply(op, values)
  /\ locals' = NoLocals
  /\ UNCHANGED <<variables, rules, config, pc>>

TNormMin(values) == CallNorm("tNormMin", values)
TNormProduct(values) == CallNorm("tNormProduct", values)
TNormLukasiewicz(values) == CallNorm("tNormLukasiewicz", values)
TNormDrastic(values) == CallNorm("tNormDrastic", values)
SNormMax(values) == CallNorm("sNormMax", values)
SNormSum(values) == CallNorm("sNormSum", values)
SNormProbor(values) == CallNorm("sNormProbor", values)
SNormLukasiewicz(values) == CallNorm("sNormLukasiewicz", values)
SNormDrastic(values) == CallNorm("sNormDrastic", values)

\* a cut returns a function
CallCut(op, args, ret) ==
  /\ outcome' = Done(op, "none", args)
  /\ result' = ret
  /\ locals' = NoLocals
  /\ UNCHANGED <<variables, rules, config, pc>>

AlphaCut(mf, alpha) ==
  /\ pc = "idle"
  /\ CallCut("alphaCut", <<mf, alpha>>, alphaCut(mf, alpha))

StrongAlphaCut(mf, alpha) ==
  /\ pc = "idle"
  /\ CallCut("strongAlphaCut", <<mf, alpha>>, strongAlphaCut(mf, alpha))

Support(mf) ==
  /\ pc = "idle"
  /\ CallCut("support", <<mf>>, support(mf))

Core(mf) ==
  /\ pc = "idle"
  /\ CallCut("core", <<mf>>, core(mf))

\* the caller applies the cut it was given at each point of the grid
ApplyCut ==
  /\ pc = "idle"
  /\ outcome.op \in Cuts
  /\ locals = NoLocals
  /\ locals' = [x \in Grid |-> MF(result, x)]
  /\ UNCHANGED <<variables, rules, config, pc, outcome, result>>

NextOperator ==
  \/ \E values \in DegreeLists : TNormMin(values)
  \/ \E values \in DegreeLists : TNormProduct(values)
  \/ \E values \in DegreeLists : TNormLukasiewicz(values)
  \/ \E values \in DegreeLists : TNormDrastic(values)
  \/ \E values \in DegreeLists : SNormMax(values)
  \/ \E values \in DegreeLists : SNormSum(values)
  \/ \E values \in DegreeLists : SNormProbor(values)
  \/ \E values \in DegreeLists : SNormLukasiewicz(values)
  \/ \E values \in DegreeLists : SNormDrastic(values)
  \/ \E mf \in CutMFs, alpha \in Degrees : AlphaCut(mf, alpha)
  \/ \E mf \in CutMFs, alpha \in Degrees : StrongAlphaCut(mf, alpha)
  \/ \E mf \in CutMFs : Support(mf)
  \/ \E mf \in CutMFs : Core(mf)
  \/ ApplyCut

OperatorSpec == Init /\ [][NextOperator]_vars

\* C22: each of the four T-norms is commutative, op(a, b) = op(b, a), and
\* its call on three degrees agrees with both binary foldings,
\* op(a, b, c) = op(op(a, b), c) = op(a, op(b, c)).
C22_TNormCommutativeAssociative ==
  LET op == outcome.op
      v == outcome.args
  IN  /\ (op \in TNorms /\ Len(v) = 2) => result = Apply(op, <<v[2], v[1]>>)
      /\ (op \in TNorms /\ Len(v) = 3)
           => /\ result = Apply(op, <<Apply(op, <<v[1], v[2]>>), v[3]>>)
              /\ result = Apply(op, <<v[1], Apply(op, <<v[2], v[3]>>)>>)

InUnitInterval(value) == RLe(Zero, value) /\ RLe(value, One)

\* C23: on every non-empty list of degrees of [0, 1], each T-norm and each
\* S-norm returns a value of [0, 1], the lists of only 1s and of only 0s
\* included.
C23_NormsStayInUnitInterval ==
  outcome.op \in TNorms \cup SNorms => InUnitInterval(result)


\* the cut of outcome.op has been applied on the grid
CutApplied(op) == outcome.op = op /\ locals # NoLocals

\* C28: support(A)(x) is 1 where A(x) > 0 and 0 where A(x) = 0, and
\* core(A)(x) is 1 exactly where A(x) = 1.
C28_SupportAndCore ==
  /\ CutApplied("support")
       => \A x \in Grid :
             locals[x] = IF RLt(Zero, MF(outcome.args[1], x)) THEN One ELSE Zero
  /\ CutApplied("core")
       => \A x \in Grid : (locals[x] = One) <=> (MF(outcome.args[1], x) = One)


(***************************************************************************)
(* The aggregated function of an output, checked under EvalSpec.           *)
(***************************************************************************)
\* the contributions to output k, in rule order
ContributionsTo(k) ==
  SelectSeq(Flatten([i \in 1..Len(result.ruleEvaluations) |->
                       result.ruleEvaluations[i].outputContributions]),
            LAMBDA q : q.outputVar = k)

\* the implied function of contribution q at x
ImpliedAt(q, x) ==
  LET base == MF(variables[q.outputVar].sets[q.term], x)
  IN  IF implicationMethod = "min" THEN RMin(base, q.strength)
      ELSE RMul(base, q.strength)

ImpliedValues(k, x) ==
  [n \in 1..Len(ContributionsTo(k)) |-> ImpliedAt(ContributionsTo(k)[n], x)]

\* C24: the aggregated function of an output with two or more contributions
\* is at every x the maximum (aggregation max) or the sum capped at 1
\* (aggregation sum) of the implied functions of its contributions, each
\* min(base(x), strength) or base(x) * strength.
C24_PointwiseAggregation ==
  VerboseReturned =>
    \A k \in DOMAIN result.aggregatedOutputs :
       Len(ContributionsTo(k)) >= 2 =>
         \A x \in ProbePoints :
            MF(result.aggregatedOutputs[k], x)
              = IF aggregationMethod = "max" THEN Greatest(ImpliedValues(k, x))
                ELSE RMin(One, Sum(ImpliedValues(k, x)))

\* three contributions were summed and the sum was capped at x = 1
C24_Witness ==
  /\ VerboseReturned
  /\ aggregationMethod = "sum"
  /\ implicationMethod = "min"
  /\ Len(ContributionsTo("f")) = 3
  /\ RLt(One, Sum(ImpliedValues("f", One)))
  /\ MF(result.aggregatedOutputs["f"], One) = One


(***************************************************************************)
(* Range inference, checked under RangeSpec: registrations with and        *)
(* without a range, of terms that are positive at none, one or all of the  *)
(* probe points.                                                           *)
(***************************************************************************)
Term(name, mf) == [term \in {name} |-> mf]
RangeSetsU == {BothTerms,
               Term("far", triangular(1, 2, 3)),
               Term("neg", triangular(-20, -10, 0)),
               Term("mid", triangular(0, 10, 20)),
               Term("wide", trapezoidal(-2000, -1000, 1000, 2000))}
RangeNames == {"t", "f"}
RangeU == {<<>>, <<0, 2>>, <<-5, 5>>}

NextRange ==
  \/ \E name \in RangeNames, sets \in RangeSetsU, range \in RangeU :
        AddVariable(name, sets, range)
  \/ \E name \in RangeNames, sets \in RangeSetsU, range \in RangeU :
        AddOutput(name, sets, range)

RangeSpec == Init /\ [][NextRange]_vars

\* the probe points at which some term of sets exceeds 0.01
Hits(sets) ==
  {x \in {-1000, -100, -10, 0, 10, 100, 1000} :
     \E term \in DOMAIN sets : RLt(<<1, 100>>, MF(sets[term], R(x)))}

\* the step is a registration of name with these sets and range
Registers(name, sets, range) ==
  /\ name \in DOMAIN variables'
  /\ variables'[name].sets = sets
  /\ AddVariable(name, sets, range) \/ AddOutput(name, sets, range)

\* C25 as stated: a variable registered without a range gets the smallest
\* and the largest probe point at which some term exceeds 0.01, and [0, 100]
\* only when no term exceeds 0.01 at any probe point; a given range is
\* stored unchanged.
C25_HitsOnly ==
  [][\A name \in RangeNames, sets \in RangeSetsU, range \in RangeU :
       Registers(name, sets, range) =>
         variables'[name].range =
           IF range # <<>> THEN range
           ELSE IF Hits(sets) = {} THEN <<0, 100>>
           ELSE <<SetMin(Hits(sets)), SetMax(Hits(sets))>>]_vars

\* C25, amended: a variable registered without a range gets
\* [min(0, lo), max(100, hi)] for the smallest and largest probe point lo
\* and hi at which some term exceeds 0.01, so the window [0, 100] is always
\* inside the inferred range, and [0, 100] itself when no point is hit; a
\* given range is stored unchanged.
C25_SeededRange ==
  [][\A name \in RangeNames, sets \in RangeSetsU, range \in RangeU :
       Registers(name, sets, range) =>
         variables'[name].range =
           IF range # <<>> THEN range
           ELSE <<SetMin(Hits(sets) \cup {0}), SetMax(Hits(sets) \cup {100})>>]_vars

\* t was registered without a range with a term that is positive at -10
\* only, and f with a range
C25_Witness ==
  /\ DOMAIN variables = {"t", "f"}
  /\ variables["t"].sets = Term("neg", triangular(-20, -10, 0))
  /\ variables["t"].range = <<-10, 100>>
  /\ variables["f"].range = <<-5, 5>>
  /\ outcome.op = "addOutput"


(***************************************************************************)
(* The rule list as a history of the calls, checked under Spec.            *)
(***************************************************************************)
\* C26: getRules returns the rules successfully added since the last
\* clearRules, in the order added: a successful addRule appends its rule, a
\* successful addRules appends its rules in order, a call that fails adds
\* nothing, clearRules empties the list and no other call changes it.
C26_RuleListHistory ==
  [][/\ \A rule \in RuleU :
          AddRule(rule) =>
            getRules' = IF outcome'.err = "none" THEN Append(getRules, rule)
                        ELSE getRules
     /\ \A rs \in RuleListU :
          AddRules(rs) =>
            getRules' = IF outcome'.err = "none" THEN getRules \o rs
                        ELSE getRules
     /\ ClearRules => getRules' = <<>>
     /\ getRules' # getRules =>
          outcome'.op \in {"addRule", "addRules", "clearRules"}]_vars


(***************************************************************************)
(* The crisp outputs, checked under EvalSpec.                              *)
(***************************************************************************)
RangeMin(k) == R(variables[k].range[1])
RangeMax(k) == R(variables[k].range[2])

\* the points the defuzzifiers sample on the range of k
Samples(k) ==
  {RAdd(RangeMin(k), RMul(R(i), RDiv(RSub(RangeMax(k), RangeMin(k)), R(resolution)))) :
     i \in 0..resolution}

Aggregated(k, x) == MF(result.aggregatedOutputs[k], x)

\* mu(c + d) = mu(c - d) at the sampled points, c the midpoint of the range
SymmetricAtSamples(k) ==
  \A x \in Samples(k) :
     Aggregated(k, x) = Aggregated(k, RSub(RAdd(RangeMin(k), RangeMax(k)), x))

PositiveAtSamples(k) == \E x \in Samples(k) : RLt(Zero, Aggregated(k, x))

EvaluateReturned ==
  outcome.op \in {"evaluate", "evaluateVerbose"} /\ result # NoResult

\* the registered variables named in the consequent of a stored rule
NamedInConsequent ==
  {k \in DOMAIN variables :
     \E i \in 1..Len(rules) : \E j \in 1..Len(rules[i].then) :
        rules[i].then[j].var = k}

\* C30: the outputs mapping returned by evaluate has an entry for exactly
\* the registered variables named in the consequent of a stored rule: an
\* output no stored rule names has no entry, and with no rules the mapping
\* is empty.
C30_OutputEntries ==
  EvaluateReturned => DOMAIN result.outputs = NamedInConsequent

\* f and t are both outputs, the only stored rule names t, and evaluate
\* returned an entry for t alone
C30_Witness ==
  /\ EvaluateReturned
  /\ rules = <<r_flo_tlo>>
  /\ DOMAIN variables = {"f", "t"}
  /\ variables["f"].isOutput
  /\ variables["t"].isOutput
  /\ DOMAIN result.outputs = {"t"}


====
